---- MODULE Spec2Model ----
(***************************************************************************)
(* Interaction core of the portable weather station sketch                 *)
(* (src/portableweather.ino): the button debouncer, the screen navigation  *)
(* of loop(), the on-screen keyboard gestures and the Wi-Fi connect state  *)
(* machine.                                                                *)
(*                                                                         *)
(* Time is the value of millis().  Every action that reads millis() first  *)
(* lets the clock advance by a delta drawn from the environment E; the     *)
(* delays the code executes itself (delay(80), delay(120), delay(40)) are  *)
(* added where the code executes them, and delay(8) / delay(10) are lower  *)
(* limits of the deltas of a loop pass / of a release-wait iteration.      *)
(* The clock stays far below 2^32, so unsigned subtraction never wraps.    *)
(***************************************************************************)
EXTENDS Integers, Sequences, FiniteSets, TLC

VARIABLES
  now,               \* last value read from millis()
  pc,                \* position inside loop()
  btn,               \* btnUp, btnDown, btnSel, btnBack
  currentScreen, previousScreen,
  menuIndex,
  scannedSSIDs, scannedCount, wifiListIndex,
  manualSSID, manualPassword, editingSSID,
  wifiConnected, wifiStatusText,
  wifiConnectState, wifiConnectStart,
  lastUiRefresh,
  kbRow, kbCol,
  prefs,             \* Preferences: wifi_ssid, wifi_pwd
  radio,             \* the WiFi object: "off", "associating", "connected"
  result,            \* what showWiFiConnectResult last drew
  obs,               \* observer of the raw samples and stable levels (history only)
  samples,           \* number of updateButtons calls so far (bounds the exploration)
  changes,           \* number of those at which a raw level differed from the last
  polled             \* observer of the poll of the connect attempt (history only)

vars == <<now, pc, btn, currentScreen, previousScreen, menuIndex, scannedSSIDs,
          scannedCount, wifiListIndex, manualSSID, manualPassword, editingSSID,
          wifiConnected, wifiStatusText, wifiConnectState, wifiConnectStart,
          lastUiRefresh, kbRow, kbCol, prefs, radio, result, obs, samples,
          changes, polled>>

-----------------------------------------------------------------------------
(* Program constants *)

DEBOUNCE_MS == 30
LONGPRESS_MS == 1200
UI_REFRESH_MS == 700
WIFI_CONNECT_TIMEOUT == 20000
MENU_COUNT == 5
KEYBOARD_ROWS == 6
KEYBOARD_COLS == 10
SYMBOL_COL == 8
SSID_MAX == 32
PWD_MAX == 64
SCAN_MAX == 31
SCAN_SLOTS == 32
SETUP_DELAY == 50
SCAN_DELAY == 80
CONNECT_DELAY == 120
CONFIRM_DELAY == 40
LOOP_DELAY == 8
WAIT_DELAY == 10

HIGH == TRUE
LOW == FALSE

Buttons == {"Up", "Down", "Sel", "Back"}

Screens == {"LOADING", "MENU", "LOCAL_WEATHER", "API_WEATHER", "GEOLOCATION",
            "WIFI_SCAN", "WIFI_PASSWORD", "WIFI_CONNECTING", "WIFI_RESULT",
            "INFO", "WIFI_KEYBOARD", "WIFI_MANUAL_SETUP"}

keyboardCells ==
  << <<"a", "b", "c", "d", "e", "f", "g", "h", "i", "J">>,
     <<"k", "l", "m", "n", "o", "p", "q", "r", "s", "t">>,
     <<"u", "v", "w", "x", "y", "z", "A", "B", "C", "D">>,
     <<"E", "F", "G", "H", "I", "J", "K", "L", "M", "N">>,
     <<"O", "P", "Q", "R", "S", "T", "U", "V", "W", "X">>,
     <<"Y", "Z", "0", "1", "2", "3", "4", "5", "6", "7">> >>

extraSymbols == <<"!", "@", "#", ".", "-", "_", "/", ":", "*", "?", "&">>

NoNetworksFound ==
  <<"N", "o", " ", "n", "e", "t", "w", "o", "r", "k", "s", " ", "f", "o", "u", "n", "d">>

Min(a, b) == IF a < b THEN a ELSE b
Max(a, b) == IF a > b THEN a ELSE b

-----------------------------------------------------------------------------
(* Button helpers *)

initB(raw, t) ==
  [stable |-> raw, lastRaw |-> raw, lastChange |-> t, pressedAt |-> 0,
   prevStable |-> raw]

setupButtons(raw, t) == [b \in Buttons |-> initB(raw[b], t)]

\* updateOne committing a level at the second equal sample, the window untested
updateOneEager(b, raw, t) ==
  IF raw # b.lastRaw THEN [b EXCEPT !.lastChange = t, !.lastRaw = raw]
  ELSE IF (t - b.lastChange) > 0 /\ b.stable # raw
         THEN [b EXCEPT !.stable = raw, !.pressedAt = IF raw = LOW THEN t ELSE 0]
         ELSE b

\* updateOne leaving the press timestamp in place at a release
updateOneKeepsStamp(b, raw, t) ==
  IF raw # b.lastRaw THEN [b EXCEPT !.lastChange = t, !.lastRaw = raw]
  ELSE IF (t - b.lastChange) > DEBOUNCE_MS /\ b.stable # raw
         THEN [b EXCEPT !.stable = raw, !.pressedAt = IF raw = LOW THEN t ELSE b.pressedAt]
         ELSE b

\* updateOne committing once the level has been unchanged for 30 ms
updateOneAtLeast(b, raw, t) ==
  IF raw # b.lastRaw THEN [b EXCEPT !.lastChange = t, !.lastRaw = raw]
  ELSE IF (t - b.lastChange) >= DEBOUNCE_MS /\ b.stable # raw
         THEN [b EXCEPT !.stable = raw, !.pressedAt = IF raw = LOW THEN t ELSE 0]
         ELSE b

updateOne(b, raw, t) ==
  IF raw # b.lastRaw
    THEN [b EXCEPT !.lastChange = t, !.lastRaw = raw]
    ELSE IF (t - b.lastChange) > DEBOUNCE_MS /\ b.stable # raw
           THEN [b EXCEPT !.stable = raw,
                          !.pressedAt = IF raw = LOW THEN t ELSE 0]
           ELSE b

updateButtons(bs, raw, t) == [b \in Buttons |-> updateOne(bs[b], raw[b], t)]

\* pressedEdge: the value returned, and the button after the call
pressedEdge(b) == b.prevStable /\ b.stable = LOW

afterEdge(b) == [b EXCEPT !.prevStable = b.stable]

isPressed(b) == b.stable = LOW

\* the long-press test of lines 521, 543 and 572, with millis() = t
\* the long-press test with >= for >
longPressedAtLeast(b, t) ==
  isPressed(b) /\ b.pressedAt # 0 /\ (t - b.pressedAt) >= LONGPRESS_MS

longPressed(b, t) ==
  isPressed(b) /\ b.pressedAt # 0 /\ (t - b.pressedAt) > LONGPRESS_MS

-----------------------------------------------------------------------------
(* Observer: history of the samples, kept beside the program state.         *)
(*   runStart  time of the first sample of the current run of LOW samples,  *)
(*             -1 after a HIGH sample                                       *)
(*   granted   the current run has lasted >= DEBOUNCE_MS at some sample     *)
(*   credit    runs that reached the debounce window and have not been      *)
(*             answered by a pressedEdge (at most one is kept); -1 once a   *)
(*             pressedEdge returned true without such a run                 *)
(*   lowSince  time of the sample at which the stable level became LOW,     *)
(*             -1 while it is HIGH                                          *)
(*   sinceBoot the stable level is LOW since setupButtons                   *)
(*   pending   the stable level became LOW and no pressedEdge has returned  *)
(*             true since                                                   *)
(*   owed      pending, at the last call of pressedEdge                     *)
(*   fired     what the last call of pressedEdge returned                   *)
(*   acted     long-press actions (insert, delete) taken since the stable   *)
(*             level last became LOW                                        *)
(*   chars     characters these actions appended to or removed from a       *)
(*             buffer                                                       *)

obsInit(raw, t) ==
  [runStart |-> IF raw = LOW THEN t ELSE -1, granted |-> FALSE, credit |-> 0,
   lowSince |-> IF raw = LOW THEN t ELSE -1, sinceBoot |-> (raw = LOW),
   pending |-> FALSE, owed |-> FALSE, fired |-> FALSE, acted |-> 0, chars |-> 0]

obsSample(o, old, new, raw, t) ==
  LET start == IF raw = HIGH THEN -1
               ELSE IF o.runStart = -1 THEN t ELSE o.runStart
      fresh == raw = LOW /\ o.runStart = -1
      reach == raw = LOW /\ t - start >= DEBOUNCE_MS
      had   == IF fresh THEN FALSE ELSE o.granted
      press == old.stable = HIGH /\ new.stable = LOW
      clear == new.stable = HIGH \/ press
  IN [o EXCEPT
       !.runStart = start,
       !.granted = IF raw = HIGH THEN FALSE ELSE had \/ reach,
       !.credit = IF old.stable = LOW /\ new.stable = HIGH THEN 0
                  ELSE IF reach /\ ~had THEN Max(o.credit, 1) ELSE o.credit,
       !.lowSince = IF new.stable = HIGH THEN -1
                    ELSE IF press THEN t ELSE o.lowSince,
       !.sinceBoot = o.sinceBoot /\ new.stable = LOW,
       !.pending = o.pending \/ press,
       !.acted = IF clear THEN 0 ELSE o.acted,
       !.chars = IF clear THEN 0 ELSE o.chars]

obsSamples(os, olds, news, raw, t) ==
  [b \in Buttons |-> obsSample(os[b], olds[b], news[b], raw[b], t)]

obsEdge(o, fired) ==
  [o EXCEPT !.credit = IF fired THEN (IF o.credit >= 1 THEN 0 ELSE -1) ELSE o.credit,
            !.owed = o.pending,
            !.fired = fired,
            !.pending = IF fired THEN FALSE ELSE o.pending]

\* a long-press action that changed the length of a buffer from m to n
obsActed(o, m, n) ==
  [o EXCEPT !.acted = Min(o.acted + 1, 2),
            !.chars = Min(o.chars + (IF n > m THEN n - m ELSE m - n), 2)]

\* polled: whether the last pass polled the connect attempt, the answer of
\* WiFi.status() == WL_CONNECTED, the address and the value of millis() there,
\* the number of timeouts since the last startWiFiConnect, and the connection
\* state in which startWiFiConnect was last called ("NONE" before the first call)
NoPoll(n) ==
  [ran |-> FALSE, linked |-> FALSE, ip |-> "", at |-> 0, timeouts |-> n, from |-> "NONE"]

obsPoll(s, r, t, linked, ip) ==
  IF t - s.lastUi > UI_REFRESH_MS /\ s.screen = "WIFI_CONNECTING"
       /\ s.connState = "CONNECTING"
    THEN [ran |-> TRUE, linked |-> linked, ip |-> IF linked THEN ip ELSE "", at |-> t,
          timeouts |-> IF r.result.msg = <<"Timeout">> /\ r.connState = "FAILED"
                         THEN Min(s.poll.timeouts + 1, 2) ELSE s.poll.timeouts,
          from |-> s.poll.from]
    ELSE s.poll

-----------------------------------------------------------------------------
(* The state loop() works on, as one record, so that the four edge handlers *)
(* of one pass can be composed in the order the code runs them.             *)

Cur(t) ==
  [screen |-> currentScreen, prev |-> previousScreen, menuIndex |-> menuIndex,
   ssids |-> scannedSSIDs, count |-> scannedCount, listIndex |-> wifiListIndex,
   ssid |-> manualSSID, pwd |-> manualPassword, editing |-> editingSSID,
   kbRow |-> kbRow, kbCol |-> kbCol, connState |-> wifiConnectState,
   radio |-> radio, result |-> result, connected |-> wifiConnected,
   start |-> wifiConnectStart, lastUi |-> lastUiRefresh, prefs |-> prefs, clock |-> t,
   poll |-> [NoPoll(polled.timeouts) EXCEPT !.from = polled.from]]

\* showWiFiConnectResult without  currentScreen = SCREEN_WIFI_RESULT
showWiFiConnectResultInPlace(s, ok, msg) ==
  [s EXCEPT !.result = [ok |-> ok, msg |-> msg]]

\* showWiFiConnectResult(ok, msg)
showWiFiConnectResult(s, ok, msg) ==
  [s EXCEPT !.screen = "WIFI_RESULT", !.result = [ok |-> ok, msg |-> msg]]

\* the scan without the cap of line 1057
startWifiScanUncapped(s, sc) ==
  LET cnt == IF sc.n <= 0 THEN 1 ELSE sc.n
  IN [s EXCEPT
       !.clock = s.clock + SCAN_DELAY,
       !.count = cnt,
       !.ssids = [i \in 0..(SCAN_SLOTS - 1) |->
                    IF sc.n <= 0
                      THEN (IF i = 0 THEN NoNetworksFound ELSE s.ssids[i])
                      ELSE (IF i < sc.n THEN sc.names[i + 1] ELSE s.ssids[i])],
       !.listIndex = 0]

\* startWifiScanAndShow(): sc.n is what WiFi.scanNetworks returns, sc.names
\* what WiFi.SSID(i) returns for i = 0, 1, ...
startWifiScanAndShow(s, sc) ==
  LET capped == IF sc.n > SCAN_MAX THEN SCAN_MAX ELSE sc.n
      cnt    == IF capped <= 0 THEN 1 ELSE capped
  IN [s EXCEPT
       !.clock = s.clock + SCAN_DELAY,
       !.count = cnt,
       !.ssids = [i \in 0..(SCAN_SLOTS - 1) |->
                    IF capped <= 0
                      THEN (IF i = 0 THEN NoNetworksFound ELSE s.ssids[i])
                      ELSE (IF i < capped THEN sc.names[i + 1] ELSE s.ssids[i])],
       !.listIndex = 0]

\* the UP handler stopping at the first menu item
OnUpClamped(s) ==
  IF s.screen = "MENU"
    THEN [s EXCEPT !.menuIndex = Max(0, s.menuIndex - 1)]
  ELSE IF s.screen = "WIFI_SCAN"
    THEN (IF s.count > 0
            THEN [s EXCEPT !.listIndex = Max(0, s.listIndex - 1)] ELSE s)
  ELSE IF s.screen = "WIFI_KEYBOARD"
    THEN [s EXCEPT !.kbRow = Max(0, s.kbRow - 1)]
  ELSE s

\* if (pressedEdge(btnUp)) { ... }
OnUp(s) ==
  IF s.screen = "MENU"
    THEN [s EXCEPT !.menuIndex = (s.menuIndex - 1 + MENU_COUNT) % MENU_COUNT]
  ELSE IF s.screen = "WIFI_SCAN"
    THEN (IF s.count > 0
            THEN [s EXCEPT !.listIndex = Max(0, s.listIndex - 1)] ELSE s)
  ELSE IF s.screen = "WIFI_KEYBOARD"
    THEN [s EXCEPT !.kbRow = Max(0, s.kbRow - 1)]
  ELSE s

\* the DOWN handler with a keyboard cursor that wraps to the top row
OnDownWraps(s) ==
  IF s.screen = "MENU"
    THEN [s EXCEPT !.menuIndex = (s.menuIndex + 1) % MENU_COUNT]
  ELSE IF s.screen = "WIFI_SCAN"
    THEN (IF s.count > 0
            THEN [s EXCEPT !.listIndex = Min(s.count - 1, s.listIndex + 1)] ELSE s)
  ELSE IF s.screen = "WIFI_KEYBOARD"
    THEN [s EXCEPT !.kbRow = (s.kbRow + 1) % KEYBOARD_ROWS]
  ELSE s

\* if (pressedEdge(btnDown)) { ... }
OnDown(s) ==
  IF s.screen = "MENU"
    THEN [s EXCEPT !.menuIndex = (s.menuIndex + 1) % MENU_COUNT]
  ELSE IF s.screen = "WIFI_SCAN"
    THEN (IF s.count > 0
            THEN [s EXCEPT !.listIndex = Min(s.count - 1, s.listIndex + 1)] ELSE s)
  ELSE IF s.screen = "WIFI_KEYBOARD"
    THEN [s EXCEPT !.kbRow = Min(KEYBOARD_ROWS - 1, s.kbRow + 1)]
  ELSE s

\* the switch (menuIndex) of the SELECT handler
MenuSelect(s, sc) ==
  LET m == [s EXCEPT !.prev = s.screen]
  IN CASE s.menuIndex = 0 -> [m EXCEPT !.screen = "LOCAL_WEATHER"]
       [] s.menuIndex = 1 -> [m EXCEPT !.screen = "API_WEATHER"]
       [] s.menuIndex = 2 -> [m EXCEPT !.screen = "GEOLOCATION"]
       [] s.menuIndex = 3 -> startWifiScanAndShow([m EXCEPT !.screen = "WIFI_SCAN"], sc)
       [] s.menuIndex = 4 -> [m EXCEPT !.screen = "WIFI_MANUAL_SETUP"]
       [] s.menuIndex = 5 -> [m EXCEPT !.screen = "INFO"]
       [] OTHER -> m

\* the SELECT handler with weather and location screens that ignore SELECT
OnSelKeepsLeaf(s, sc) ==
  IF s.screen = "MENU" THEN MenuSelect(s, sc)
  ELSE IF s.screen = "WIFI_SCAN"
    THEN (IF s.count > 0
            THEN [s EXCEPT !.ssid = s.ssids[s.listIndex], !.pwd = <<>>,
                           !.editing = FALSE, !.screen = "WIFI_KEYBOARD",
                           !.kbRow = 0, !.kbCol = 0]
            ELSE s)
  ELSE IF s.screen = "WIFI_MANUAL_SETUP" THEN [s EXCEPT !.editing = ~s.editing]
  ELSE IF s.screen = "WIFI_KEYBOARD"
    THEN [s EXCEPT !.kbCol = Min(KEYBOARD_COLS - 1, s.kbCol + 1)]
  ELSE IF s.screen \in {"WIFI_RESULT", "INFO"} THEN [s EXCEPT !.screen = "MENU"]
  ELSE s

\* the SELECT handler with a scan list that always hands over its first entry
OnSelFirstEntry(s, sc) ==
  IF s.screen = "MENU" THEN MenuSelect(s, sc)
  ELSE IF s.screen \in {"LOCAL_WEATHER", "API_WEATHER", "GEOLOCATION"}
    THEN [s EXCEPT !.screen = "MENU"]
  ELSE IF s.screen = "WIFI_SCAN"
    THEN (IF s.count > 0
            THEN [s EXCEPT !.ssid = s.ssids[0], !.pwd = <<>>,
                           !.editing = FALSE, !.screen = "WIFI_KEYBOARD",
                           !.kbRow = 0, !.kbCol = 0]
            ELSE s)
  ELSE IF s.screen = "WIFI_MANUAL_SETUP" THEN [s EXCEPT !.editing = ~s.editing]
  ELSE IF s.screen = "WIFI_KEYBOARD"
    THEN [s EXCEPT !.kbCol = Min(KEYBOARD_COLS - 1, s.kbCol + 1)]
  ELSE IF s.screen \in {"WIFI_RESULT", "INFO"} THEN [s EXCEPT !.screen = "MENU"]
  ELSE s

\* if (pressedEdge(btnSel)) { ... }
OnSel(s, sc) ==
  IF s.screen = "MENU" THEN MenuSelect(s, sc)
  ELSE IF s.screen \in {"LOCAL_WEATHER", "API_WEATHER", "GEOLOCATION"}
    THEN [s EXCEPT !.screen = "MENU"]
  ELSE IF s.screen = "WIFI_SCAN"
    THEN (IF s.count > 0
            THEN [s EXCEPT !.ssid = s.ssids[s.listIndex], !.pwd = <<>>,
                           !.editing = FALSE, !.screen = "WIFI_KEYBOARD",
                           !.kbRow = 0, !.kbCol = 0]
            ELSE s)
  ELSE IF s.screen = "WIFI_PASSWORD" THEN s
  ELSE IF s.screen = "WIFI_MANUAL_SETUP" THEN [s EXCEPT !.editing = ~s.editing]
  ELSE IF s.screen = "WIFI_KEYBOARD"
    THEN [s EXCEPT !.kbCol = Min(KEYBOARD_COLS - 1, s.kbCol + 1)]
  ELSE IF s.screen = "WIFI_CONNECTING" THEN s
  ELSE IF s.screen \in {"WIFI_RESULT", "INFO"} THEN [s EXCEPT !.screen = "MENU"]
  ELSE s

\* the BACK handler without the cancel branch
OnBackLeaves(s) ==
  IF s.screen = "MENU" THEN s
  ELSE IF s.screen = "WIFI_KEYBOARD" THEN [s EXCEPT !.kbCol = Max(0, s.kbCol - 1)]
  ELSE [s EXCEPT !.screen = "MENU"]

\* if (pressedEdge(btnBack)) { ... }
OnBack(s) ==
  IF s.screen = "MENU" THEN s
  ELSE IF s.screen = "WIFI_KEYBOARD" THEN [s EXCEPT !.kbCol = Max(0, s.kbCol - 1)]
  ELSE IF s.screen \in {"LOCAL_WEATHER", "API_WEATHER", "GEOLOCATION", "WIFI_SCAN",
                        "WIFI_MANUAL_SETUP"}
    THEN [s EXCEPT !.screen = "MENU"]
  ELSE IF s.screen = "WIFI_CONNECTING"
    THEN showWiFiConnectResult([s EXCEPT !.radio = "off", !.connState = "FAILED"],
                               FALSE, <<"Cancelled by user">>)
  ELSE [s EXCEPT !.screen = "MENU"]

\* the variables of Cur take the values of the record s
Becomes(s) ==
  /\ currentScreen' = s.screen
  /\ previousScreen' = s.prev
  /\ menuIndex' = s.menuIndex
  /\ scannedSSIDs' = s.ssids
  /\ scannedCount' = s.count
  /\ wifiListIndex' = s.listIndex
  /\ manualSSID' = s.ssid
  /\ manualPassword' = s.pwd
  /\ editingSSID' = s.editing
  /\ kbRow' = s.kbRow
  /\ kbCol' = s.kbCol
  /\ wifiConnectState' = s.connState
  /\ radio' = s.radio
  /\ result' = s.result
  /\ wifiConnected' = s.connected
  /\ wifiConnectStart' = s.start
  /\ lastUiRefresh' = s.lastUi
  /\ prefs' = s.prefs
  /\ polled' = s.poll
  /\ now' = s.clock
  /\ wifiStatusText' = wifiStatusText

\* the character under the keyboard cursor (lines 524-531)
\* the char under the cursor without the override of the last row
charOfGrid(r, c) == keyboardCells[r + 1][c + 1]

charUnderCursor(r, c) ==
  LET ch == keyboardCells[r + 1][c + 1]
  IN IF r = KEYBOARD_ROWS - 1 /\ c >= SYMBOL_COL
       THEN (IF c - SYMBOL_COL < Len(extraSymbols)
               THEN extraSymbols[c - SYMBOL_COL + 1] ELSE ch)
       ELSE ch

\* the character showKeyboard draws in cell (r, c) (lines 1146-1151)
drawnChar(r, c) ==
  LET ch == keyboardCells[r + 1][c + 1]
  IN IF r = KEYBOARD_ROWS - 1 /\ c >= SYMBOL_COL
       THEN (IF c - SYMBOL_COL < Len(extraSymbols)
               THEN extraSymbols[c - SYMBOL_COL + 1] ELSE " ")
       ELSE ch

\* the insert without the length tests
insertCharUnchecked(s, ch) ==
  IF s.editing
    THEN [s EXCEPT !.ssid = Append(s.ssid, ch)]
    ELSE [s EXCEPT !.pwd = Append(s.pwd, ch)]

\* insert the highlighted character into the active buffer (lines 532-536)
insertChar(s, ch) ==
  IF s.editing
    THEN (IF Len(s.ssid) < SSID_MAX THEN [s EXCEPT !.ssid = Append(s.ssid, ch)] ELSE s)
    ELSE (IF Len(s.pwd) < PWD_MAX THEN [s EXCEPT !.pwd = Append(s.pwd, ch)] ELSE s)

\* a delete that removes the first character of the active buffer
deleteHead(s) ==
  IF s.editing
    THEN (IF Len(s.ssid) > 0 THEN [s EXCEPT !.ssid = Tail(s.ssid)] ELSE s)
    ELSE (IF Len(s.pwd) > 0 THEN [s EXCEPT !.pwd = Tail(s.pwd)] ELSE s)

\* delete the last character of the active buffer (lines 544-548)
deleteLast(s) ==
  IF s.editing
    THEN (IF Len(s.ssid) > 0
            THEN [s EXCEPT !.ssid = SubSeq(s.ssid, 1, Len(s.ssid) - 1)] ELSE s)
    ELSE (IF Len(s.pwd) > 0
            THEN [s EXCEPT !.pwd = SubSeq(s.pwd, 1, Len(s.pwd) - 1)] ELSE s)

\* startWiFiConnect(ssid, pwd), with millis() = s.clock
startWiFiConnect(s, ssid, pwd) ==
  [s EXCEPT !.screen = "WIFI_CONNECTING", !.connState = "CONNECTING",
            !.start = s.clock, !.prefs = [ssid |-> ssid, pwd |-> pwd],
            !.radio = "associating", !.clock = s.clock + CONNECT_DELAY]

\* the confirm block of lines 557-566, with millis() = s.clock
confirmAndConnect(s) ==
  LET saved == [s EXCEPT !.prefs = [ssid |-> s.ssid, pwd |-> s.pwd]]
      c     == startWiFiConnect(saved, s.ssid, s.pwd)
  IN [c EXCEPT !.clock = c.clock + CONFIRM_DELAY]

\* the poll measuring the timeout from the last refresh
pollWiFiSinceRefresh(s, t, linked, ip) ==
  IF linked
    THEN showWiFiConnectResult(
           [s EXCEPT !.connState = "CONNECTED", !.connected = TRUE,
                     !.radio = "connected"],
           TRUE, <<"Connected: ", ip>>)
  ELSE IF t - s.lastUi > WIFI_CONNECT_TIMEOUT
    THEN showWiFiConnectResult(
           [s EXCEPT !.radio = "off", !.connState = "FAILED", !.connected = FALSE],
           FALSE, <<"Timeout">>)
  ELSE s

\* the poll testing the timeout before the link
pollWiFiTimeoutFirst(s, t, linked, ip) ==
  IF t - s.start > WIFI_CONNECT_TIMEOUT
    THEN showWiFiConnectResult(
           [s EXCEPT !.radio = "off", !.connState = "FAILED", !.connected = FALSE],
           FALSE, <<"Timeout">>)
  ELSE IF linked
    THEN showWiFiConnectResult(
           [s EXCEPT !.connState = "CONNECTED", !.connected = TRUE,
                     !.radio = "connected"],
           TRUE, <<"Connected: ", ip>>)
  ELSE s

\* the poll with >= for > in the timeout test
pollWiFiAtLeast(s, t, linked, ip) ==
  IF linked
    THEN showWiFiConnectResult(
           [s EXCEPT !.connState = "CONNECTED", !.connected = TRUE,
                     !.radio = "connected"],
           TRUE, <<"Connected: ", ip>>)
  ELSE IF t - s.start >= WIFI_CONNECT_TIMEOUT
    THEN showWiFiConnectResult(
           [s EXCEPT !.radio = "off", !.connState = "FAILED", !.connected = FALSE],
           FALSE, <<"Timeout">>)
  ELSE s

\* the poll of the connect attempt (lines 589-603), with millis() = t
\* the poll without the timeout test
pollWiFiNoTimeout(s, t, linked, ip) ==
  IF linked
    THEN showWiFiConnectResult(
           [s EXCEPT !.connState = "CONNECTED", !.connected = TRUE,
                     !.radio = "connected"],
           TRUE, <<"Connected: ", ip>>)
  ELSE s

pollWiFi(s, t, linked, ip) ==
  IF linked
    THEN showWiFiConnectResult(
           [s EXCEPT !.connState = "CONNECTED", !.connected = TRUE,
                     !.radio = "connected"],
           TRUE, <<"Connected: ", ip>>)
  ELSE IF t - s.start > WIFI_CONNECT_TIMEOUT
    THEN showWiFiConnectResult(
           [s EXCEPT !.radio = "off", !.connState = "FAILED", !.connected = FALSE],
           FALSE, <<"Timeout">>)
  ELSE s

\* the periodic refresh (lines 583-608), with millis() = t
refreshTasks(s, t, linked, ip) ==
  LET r == [s EXCEPT !.clock = t]
  IN IF t - s.lastUi > UI_REFRESH_MS
       THEN (IF s.screen = "WIFI_CONNECTING" /\ s.connState = "CONNECTING"
               THEN pollWiFi([r EXCEPT !.lastUi = t], t, linked, ip)
               ELSE [r EXCEPT !.lastUi = t])
       ELSE r

-----------------------------------------------------------------------------
(* Environment.  E bounds what the world outside the sketch does:           *)
(*   E.chords for each screen, the sets of buttons whose raw levels the     *)
(*            user changes between two samples while that screen is shown   *)
(*            (besides changing none)                                       *)
(*   E.boot   the buttons that may read LOW in setupButtons                 *)
(*   E.tick   time between two updateButtons calls while a level is in flux *)
(*            (a raw level changes, or differs from the stable level)       *)
(*   E.hold   time between two calls while nothing is in flux and a button  *)
(*            is stably pressed (the user keeps holding)                    *)
(*   E.idle   time between two calls while nothing is in flux and the       *)
(*            screen is WIFI_CONNECTING (the user waits for the radio)      *)
(*   E.rest   time between two calls while nothing is in flux               *)
(*   E.mid    time between two millis() reads inside one pass               *)
(*   E.race   time between the read of line 543 and the read of line 555    *)
(*   E.scans  results of WiFi.scanNetworks                                  *)
(*   E.saved  contents of Preferences at startup                            *)
(*   E.link   answers of WiFi.status() == WL_CONNECTED while associating    *)
(*   E.bootLink  outcomes of the auto-connect of setup()                    *)
(*   E.ips    addresses WiFi.localIP() may report                           *)
(*   E.maxSamples  the number of updateButtons calls explored               *)
(*   E.maxChanges  the number of those at which the user changes a button   *)

RawInputs(allowed) ==
  {r \in [Buttons -> BOOLEAN] : \A b \in Buttons \ allowed : r[b] = HIGH}

\* what digitalRead can return for the four pins at the next sample
NextRaw(E) ==
  {[b \in Buttons |-> IF b \in c THEN ~btn[b].lastRaw ELSE btn[b].lastRaw] :
     c \in E.chords[currentScreen] \cup {{}}}

Steady(raw) == \A b \in Buttons : raw[b] = btn[b].lastRaw

InFlux(raw) == ~Steady(raw) \/ \E b \in Buttons : btn[b].lastRaw # btn[b].stable

Elapsed(E, raw) ==
  IF InFlux(raw) THEN E.tick
  ELSE E.rest \cup (IF \E b \in Buttons : isPressed(btn[b]) THEN E.hold ELSE {})
              \cup (IF currentScreen = "WIFI_CONNECTING" THEN E.idle ELSE {})

\* one more updateButtons call with the levels raw, within the bounds of E
Sampled(E, raw) ==
  /\ samples < E.maxSamples
  /\ samples' = samples + 1
  /\ Steady(raw) \/ changes < E.maxChanges
  /\ changes' = IF Steady(raw) THEN changes ELSE changes + 1

Str(n, ch) == [i \in 1..n |-> ch]

Init(E) ==
  /\ now = SETUP_DELAY
  /\ pc = "loop"
  /\ samples = 0
  /\ changes = 0
  /\ \E raw \in RawInputs(E.boot) :
       /\ btn = setupButtons(raw, SETUP_DELAY)
       /\ obs = [b \in Buttons |-> obsInit(raw[b], SETUP_DELAY)]
  /\ \E saved \in E.saved :
       /\ prefs = saved
       /\ manualSSID = IF Len(saved.ssid) > 0 THEN saved.ssid ELSE <<>>
       /\ manualPassword = IF Len(saved.ssid) > 0 THEN saved.pwd ELSE <<>>
  /\ \E ok \in E.bootLink :
       /\ wifiConnected = ok
       /\ wifiStatusText = IF ok THEN "Connected" ELSE "Not connected"
       /\ radio = IF ok THEN "connected" ELSE "off"
  /\ currentScreen = "MENU"
  /\ previousScreen = "LOADING"
  /\ menuIndex = 0
  /\ scannedSSIDs = [i \in 0..(SCAN_SLOTS - 1) |-> <<>>]
  /\ scannedCount = 0
  /\ wifiListIndex = 0
  /\ editingSSID = TRUE
  /\ wifiConnectState = "IDLE"
  /\ wifiConnectStart = 0
  /\ lastUiRefresh = 0
  /\ kbRow = 0
  /\ kbCol = 0
  /\ result = [ok |-> FALSE, msg |-> <<>>]
  /\ polled = NoPoll(0)

-----------------------------------------------------------------------------
(* loop().  A pass runs from updateButtons to delay(8) unless it enters one *)
(* of the three release-wait loops; pc is "loop" between two passes and     *)
(* names the wait loop inside one.  s is the state so far in the pass, b    *)
(* the buttons and o the observer.                                          *)

\* isPressed(b) && b.pressedAt != 0: the tests after which the code reads millis()
Timed(b) == isPressed(b) /\ b.pressedAt # 0

\* the clock advances at a read of millis(), and only the last value read is kept
Reads(deltas, reached) == IF reached THEN deltas ELSE {0}

\* lines 583-608, the end of the pass
PassEnd(E, s, b, o) ==
  \E d \in E.mid, linked \in (IF s.radio = "off" THEN {FALSE} ELSE E.link), ip \in E.ips :
    /\ LET r == refreshTasks(s, s.clock + d, linked, ip)
       IN Becomes([r EXCEPT !.poll = obsPoll(s, r, s.clock + d, linked, ip)])
    /\ btn' = b
    /\ obs' = o
    /\ pc' = "loop"

\* lines 570-581: SELECT long on the manual setup screen opens the keyboard
FromManual(E, s, b, o) ==
  \E d \in Reads(E.mid, s.screen = "WIFI_MANUAL_SETUP" /\ Timed(b["Sel"])) :
    IF s.screen = "WIFI_MANUAL_SETUP" /\ longPressed(b["Sel"], s.clock + d)
      THEN /\ Becomes([s EXCEPT !.screen = "WIFI_KEYBOARD", !.kbRow = 0, !.kbCol = 0,
                                !.clock = s.clock + d])
           /\ btn' = b
           /\ obs' = o
           /\ pc' = "waitMan"
      ELSE PassEnd(E, [s EXCEPT !.clock = s.clock + d], b, o)

\* the confirm block outside  if (currentScreen == SCREEN_WIFI_KEYBOARD)
FromConfirmAnyScreen(E, s, b, o) ==
  \E d1 \in Reads(E.race, Timed(b["Sel"]) /\ Timed(b["Back"])),
     d2 \in E.mid :
    LET t1 == s.clock + d1
        t2 == t1 + d2
        heldSel  == t1 - b["Sel"].pressedAt
        heldBack == t2 - b["Back"].pressedAt
        at == [s EXCEPT !.clock = t2]
    IN IF /\ isPressed(b["Sel"]) /\ isPressed(b["Back"])
          /\ b["Sel"].pressedAt # 0 /\ b["Back"].pressedAt # 0
          /\ heldSel > LONGPRESS_MS /\ heldBack > LONGPRESS_MS
         THEN FromManual(E, [confirmAndConnect(at) EXCEPT
                                  !.poll = [NoPoll(0) EXCEPT !.from = at.connState]], b, o)
         ELSE FromManual(E, at, b, o)

\* lines 553-567: SELECT + BACK long together save and start the connect
FromConfirm(E, s, b, o) ==
  \E d1 \in Reads(E.race, s.screen = "WIFI_KEYBOARD" /\ Timed(b["Sel"])
                                                        /\ Timed(b["Back"])),
     d2 \in E.mid :
    LET t1 == s.clock + d1
        t2 == t1 + d2
        heldSel  == t1 - b["Sel"].pressedAt
        heldBack == t2 - b["Back"].pressedAt
        at == [s EXCEPT !.clock = t2]
    IN IF /\ s.screen = "WIFI_KEYBOARD"
          /\ isPressed(b["Sel"]) /\ isPressed(b["Back"])
          /\ b["Sel"].pressedAt # 0 /\ b["Back"].pressedAt # 0
          /\ heldSel > LONGPRESS_MS /\ heldBack > LONGPRESS_MS
         THEN FromManual(E, [confirmAndConnect(at) EXCEPT
                                  !.poll = [NoPoll(0) EXCEPT !.from = at.connState]], b, o)
         ELSE FromManual(E, at, b, o)

\* the delete block outside  if (currentScreen == SCREEN_WIFI_KEYBOARD)
FromBackAnyScreen(E, s, b, o) ==
  \E d \in Reads(E.mid, Timed(b["Back"])) :
    IF longPressed(b["Back"], s.clock + d)
      THEN LET r == deleteLast([s EXCEPT !.clock = s.clock + d])
           IN /\ Becomes(r)
              /\ btn' = b
              /\ obs' = [o EXCEPT !["Back"] =
                           obsActed(@, Len(s.ssid) + Len(s.pwd), Len(r.ssid) + Len(r.pwd))]
              /\ pc' = "waitBack"
      ELSE FromConfirm(E, [s EXCEPT !.clock = s.clock + d], b, o)

\* lines 542-552: BACK long on the keyboard deletes the last char
FromBack(E, s, b, o) ==
  \E d \in Reads(E.mid, s.screen = "WIFI_KEYBOARD" /\ Timed(b["Back"])) :
    IF s.screen = "WIFI_KEYBOARD" /\ longPressed(b["Back"], s.clock + d)
      THEN LET r == deleteLast([s EXCEPT !.clock = s.clock + d])
           IN /\ Becomes(r)
              /\ btn' = b
              /\ obs' = [o EXCEPT !["Back"] =
                           obsActed(@, Len(s.ssid) + Len(s.pwd), Len(r.ssid) + Len(r.pwd))]
              /\ pc' = "waitBack"
      ELSE FromConfirm(E, [s EXCEPT !.clock = s.clock + d], b, o)

\* lines 520-541: SELECT long on the keyboard inserts the highlighted char
FromSel(E, s, b, o) ==
  \E d \in Reads(E.mid, s.screen = "WIFI_KEYBOARD" /\ Timed(b["Sel"])) :
    IF s.screen = "WIFI_KEYBOARD" /\ longPressed(b["Sel"], s.clock + d)
      THEN LET r == insertChar([s EXCEPT !.clock = s.clock + d],
                               charUnderCursor(s.kbRow, s.kbCol))
           IN /\ Becomes(r)
              /\ btn' = b
              /\ obs' = [o EXCEPT !["Sel"] =
                           obsActed(@, Len(s.ssid) + Len(s.pwd), Len(r.ssid) + Len(r.pwd))]
              /\ pc' = "waitSel"
      ELSE FromBack(E, [s EXCEPT !.clock = s.clock + d], b, o)

\* lines 371-516 and on: updateButtons, the four pressedEdge handlers, the rest
LoopPass(E) ==
  /\ pc = "loop"
  /\ \E raw \in NextRaw(E), sc \in E.scans : \E d \in Elapsed(E, raw) :
       LET t  == now + d
           b1 == updateButtons(btn, raw, t)
           o1 == obsSamples(obs, btn, b1, raw, t)
           s1 == IF pressedEdge(b1["Up"]) THEN OnUp(Cur(t)) ELSE Cur(t)
           s2 == IF pressedEdge(b1["Down"]) THEN OnDown(s1) ELSE s1
           s3 == IF pressedEdge(b1["Sel"]) THEN OnSel(s2, sc) ELSE s2
           s4 == IF pressedEdge(b1["Back"]) THEN OnBack(s3) ELSE s3
       IN /\ d >= LOOP_DELAY
          /\ Sampled(E, raw)
          /\ FromSel(E, s4, [b \in Buttons |-> afterEdge(b1[b])],
                     [b \in Buttons |-> obsEdge(o1[b], pressedEdge(b1[b]))])

\* the release wait as an if: one iteration, then on with the pass
WaitStepOnce(E, at, who) ==
  /\ pc = at
  /\ isPressed(btn[who])
  /\ \E raw \in NextRaw(E) : \E d \in Elapsed(E, raw) :
       LET t  == now + d
           b1 == updateButtons(btn, raw, t)
           o1 == obsSamples(obs, btn, b1, raw, t)
       IN /\ d >= WAIT_DELAY
          /\ Sampled(E, raw)
          /\ CASE at = "waitSel"  -> FromBack(E, Cur(t), b1, o1)
               [] at = "waitBack" -> FromConfirm(E, Cur(t), b1, o1)
               [] at = "waitMan"  -> PassEnd(E, Cur(t), b1, o1)

\* one iteration of  while (isPressed(b)) { delay(10); updateButtons(); }
\* and, when it was the last one, the rest of the pass
WaitStep(E, at, who) ==
  /\ pc = at
  /\ isPressed(btn[who])
  /\ \E raw \in NextRaw(E) : \E d \in Elapsed(E, raw) :
       LET t  == now + d
           b1 == updateButtons(btn, raw, t)
           o1 == obsSamples(obs, btn, b1, raw, t)
       IN /\ d >= WAIT_DELAY
          /\ Sampled(E, raw)
          /\ IF isPressed(b1[who])
               THEN /\ Becomes(Cur(t))
                    /\ btn' = b1
                    /\ obs' = o1
                    /\ pc' = at
               ELSE CASE at = "waitSel"  -> FromBack(E, Cur(t), b1, o1)
                      [] at = "waitBack" -> FromConfirm(E, Cur(t), b1, o1)
                      [] at = "waitMan"  -> PassEnd(E, Cur(t), b1, o1)

WaitSel(E) == WaitStep(E, "waitSel", "Sel")

WaitBack(E) == WaitStep(E, "waitBack", "Back")

WaitMan(E) == WaitStep(E, "waitMan", "Sel")

-----------------------------------------------------------------------------
(* Environments and specifications.                                         *)

MaxSamplesButtons == 7
MaxChangesButtons == 4
MaxSamplesKeys == 10
MaxChangesKeys == 4
MaxSamplesConn == 13
MaxChangesConn == 5

NoScan == [n |-> 0, names |-> <<>>]

NoCreds == [ssid |-> <<>>, pwd |-> <<>>]

\* the debouncer seen closely: samples 15 or 30 ms apart, SELECT and BACK
\* bouncing on the menu and its leaf screens, BACK possibly held at power-up
EnvButtons ==
  [tick |-> {15, 30}, hold |-> {}, idle |-> {}, rest |-> {}, mid |-> {0}, race |-> {0},
   chords |-> [sc \in Screens |-> {{"Sel"}, {"Back"}, {"Sel", "Back"}}],
   boot |-> {"Back"}, scans |-> {NoScan}, saved |-> {NoCreds},
   link |-> {FALSE}, bootLink |-> {FALSE}, ips |-> {"10.0.0.7"},
   maxSamples |-> MaxSamplesButtons, maxChanges |-> MaxChangesButtons]

NextButtons == LoopPass(EnvButtons)

SpecButtons == Init(EnvButtons) /\ [][NextButtons]_vars

\* the keyboard gestures: samples 40 ms apart while a level settles, then holds
\* of 1200 or 1240 ms; the user goes to the manual setup screen, opens the
\* keyboard and works SELECT and BACK there
EnvKeys ==
  [tick |-> {40}, hold |-> {1200, 1240}, idle |-> {}, rest |-> {}, mid |-> {0}, race |-> {0},
   chords |-> [sc \in Screens |->
                 CASE sc = "MENU" -> {{"Up", "Sel"}}
                   [] sc = "WIFI_MANUAL_SETUP" -> {{"Sel"}}
                   [] sc = "WIFI_KEYBOARD" -> {{"Sel"}, {"Back"}, {"Sel", "Back"}}
                   [] OTHER -> {{"Back"}}],
   boot |-> {"Back"}, scans |-> {NoScan}, saved |-> {NoCreds, [ssid |-> Str(SSID_MAX, "x"), pwd |-> <<>>]},
   link |-> {FALSE}, bootLink |-> {FALSE}, ips |-> {"10.0.0.7"},
   maxSamples |-> MaxSamplesKeys, maxChanges |-> MaxChangesKeys]

NextKeys == LoopPass(EnvKeys) \/ WaitSel(EnvKeys) \/ WaitBack(EnvKeys) \/ WaitMan(EnvKeys)

SpecKeys == Init(EnvKeys) /\ [][NextKeys]_vars

\* a connect attempt: as above up to the keyboard, then SELECT and BACK
\* together, the clock passing 1200 ms between two reads of millis(), and
\* passes up to 20 s apart while the radio associates
EnvConn ==
  [tick |-> {40}, hold |-> {1200, 1240}, idle |-> {19840, 19880}, rest |-> {}, mid |-> {0},
   race |-> {0, 1},
   chords |-> [sc \in Screens |->
                 CASE sc = "MENU" -> {{"Up", "Sel"}}
                   [] sc = "WIFI_MANUAL_SETUP" -> {{"Sel"}}
                   [] sc = "WIFI_KEYBOARD" -> {{"Sel", "Back"}}
                   [] sc = "WIFI_CONNECTING" -> {{"Back"}, {"Sel"}}
                   [] sc = "WIFI_RESULT" -> {{"Back"}, {"Sel"}}
                   [] OTHER -> {{"Back"}}],
   boot |-> {}, scans |-> {NoScan}, saved |-> {NoCreds},
   link |-> {FALSE, TRUE}, bootLink |-> {FALSE, TRUE}, ips |-> {"10.0.0.7", "10.0.0.8"},
   maxSamples |-> MaxSamplesConn, maxChanges |-> MaxChangesConn]

NextConn == LoopPass(EnvConn) \/ WaitSel(EnvConn) \/ WaitBack(EnvConn) \/ WaitMan(EnvConn)

SpecConn == Init(EnvConn) /\ [][NextConn]_vars

MaxSamplesNav == 11
MaxChangesNav == 6

TwoNets == [n |-> 2, names |-> <<Str(2, "p"), Str(3, "q")>>]

\* navigation: short presses only, 40 ms between samples; UP, DOWN and SELECT
\* on the menu, the leaf screens left by SELECT or BACK, the scan list walked
\* with UP and DOWN and a network chosen with SELECT
EnvNav ==
  [tick |-> {40}, hold |-> {}, idle |-> {}, rest |-> {}, mid |-> {0}, race |-> {0},
   chords |-> [sc \in Screens |->
                 CASE sc = "MENU" -> {{"Up"}, {"Down"}, {"Sel"}, {"Up", "Sel"},
                                      {"Up", "Down"}}
                   [] sc = "WIFI_SCAN" -> {{"Up"}, {"Down"}, {"Sel"}, {"Back"},
                                           {"Down", "Sel"}, {"Sel", "Back"}}
                   [] OTHER -> {{"Sel"}, {"Back"}}],
   boot |-> {}, scans |-> {NoScan, TwoNets}, saved |-> {NoCreds},
   link |-> {FALSE}, bootLink |-> {FALSE}, ips |-> {"10.0.0.7"},
   maxSamples |-> MaxSamplesNav, maxChanges |-> MaxChangesNav]

NextNav == LoopPass(EnvNav)

SpecNav == Init(EnvNav) /\ [][NextNav]_vars

MaxSamplesCursor == 60
MaxChangesCursor == 30

\* the keyboard cursor: short presses only; the user goes to the scan list,
\* chooses the first network, and on the keyboard works DOWN and SELECT in
\* turn, and UP and BACK together
EnvCursor ==
  [tick |-> {40}, hold |-> {}, idle |-> {}, rest |-> {}, mid |-> {0}, race |-> {0},
   chords |-> [sc \in Screens |->
                 CASE sc = "MENU" -> {{"Up"}, {"Up", "Sel"}}
                   [] sc = "WIFI_SCAN" -> {{"Sel"}}
                   [] sc = "WIFI_KEYBOARD" -> {{"Down", "Sel"}, {"Up", "Back"}, {"Sel"}}
                   [] OTHER -> {}],
   boot |-> {}, scans |-> {TwoNets}, saved |-> {NoCreds},
   link |-> {FALSE}, bootLink |-> {FALSE}, ips |-> {"10.0.0.7"},
   maxSamples |-> MaxSamplesCursor, maxChanges |-> MaxChangesCursor]

\* the user touches SELECT on the menu only at "Connect to Wi-Fi", and BACK
\* on the keyboard only while the cursor is next to the origin, and changes
\* a button only when the last change of every button has been committed
CursorPlan ==
  /\ \/ \A b \in Buttons : btn'[b].lastRaw = btn[b].lastRaw
     \/ \A b \in Buttons : btn[b].lastRaw = btn[b].stable
  /\ \/ btn'["Back"].lastRaw = btn["Back"].lastRaw
     \/ currentScreen = "WIFI_KEYBOARD" /\ kbRow <= 1 /\ kbCol <= 1
  /\ \/ btn'["Sel"].lastRaw = btn["Sel"].lastRaw
     \/ currentScreen # "MENU"
     \/ menuIndex = 3

NextCursor == LoopPass(EnvCursor) /\ CursorPlan

SpecCursor == Init(EnvCursor) /\ [][NextCursor]_vars

MaxSamplesEdit == 18

MaxChangesEdit == 8

\* stored credentials that fill both buffers, and that leave room for one char
FullCreds == [ssid |-> Str(SSID_MAX, "x"), pwd |-> Str(PWD_MAX, "y")]

NearFullCreds == [ssid |-> Str(SSID_MAX - 1, "x"), pwd |-> Str(PWD_MAX - 1, "y")]

\* editing both fields: the manual setup screen opened from menu item 4, the
\* field toggled there by SELECT, the keyboard opened by a long SELECT, chars
\* inserted and deleted by holds of 1240 ms; the buffers start empty, full, or
\* one short of full
EnvEdit ==
  [tick |-> {40}, hold |-> {1240}, idle |-> {}, rest |-> {}, mid |-> {0}, race |-> {0},
   chords |-> [sc \in Screens |->
                 CASE sc = "MENU" -> {{"Up", "Sel"}}
                   [] sc = "WIFI_MANUAL_SETUP" -> {{"Sel"}}
                   [] sc = "WIFI_KEYBOARD" -> {{"Sel"}, {"Back"}}
                   [] OTHER -> {}],
   boot |-> {}, scans |-> {NoScan}, saved |-> {NoCreds, FullCreds, NearFullCreds},
   link |-> {FALSE}, bootLink |-> {FALSE}, ips |-> {"10.0.0.7"},
   maxSamples |-> MaxSamplesEdit, maxChanges |-> MaxChangesEdit]

\* the user changes a button only when the last change of every button has
\* been committed
EditPlan ==
  \/ \A b \in Buttons : btn'[b].lastRaw = btn[b].lastRaw
  \/ \A b \in Buttons : btn[b].lastRaw = btn[b].stable

NextEdit ==
  (LoopPass(EnvEdit) \/ WaitSel(EnvEdit) \/ WaitBack(EnvEdit) \/ WaitMan(EnvEdit))
    /\ EditPlan

SpecEdit == Init(EnvEdit) /\ [][NextEdit]_vars

MaxSamplesStore == 17

MaxChangesStore == 7

\* a power cycle after a confirm: setup() runs again on what Preferences
\* holds, with no button pressed; the sample and change budgets go on
Restart(E) ==
  /\ pc = "loop"
  /\ polled.from # "NONE"
  /\ now' = SETUP_DELAY
  /\ pc' = "loop"
  /\ UNCHANGED <<samples, changes, prefs>>
  /\ btn' = setupButtons([b \in Buttons |-> HIGH], SETUP_DELAY)
  /\ obs' = [b \in Buttons |-> obsInit(HIGH, SETUP_DELAY)]
  /\ manualSSID' = IF Len(prefs.ssid) > 0 THEN prefs.ssid ELSE <<>>
  /\ manualPassword' = IF Len(prefs.ssid) > 0 THEN prefs.pwd ELSE <<>>
  /\ \E ok \in E.bootLink :
       /\ wifiConnected' = ok
       /\ wifiStatusText' = IF ok THEN "Connected" ELSE "Not connected"
       /\ radio' = IF ok THEN "connected" ELSE "off"
  /\ currentScreen' = "MENU"
  /\ previousScreen' = "LOADING"
  /\ menuIndex' = 0
  /\ scannedSSIDs' = [i \in 0..(SCAN_SLOTS - 1) |-> <<>>]
  /\ scannedCount' = 0
  /\ wifiListIndex' = 0
  /\ editingSSID' = TRUE
  /\ wifiConnectState' = "IDLE"
  /\ wifiConnectStart' = 0
  /\ lastUiRefresh' = 0
  /\ kbRow' = 0
  /\ kbCol' = 0
  /\ result' = [ok |-> FALSE, msg |-> <<>>]
  /\ polled' = NoPoll(0)

\* storing and loading: nothing stored at first; the manual setup screen,
\* either field, a char inserted by a SELECT hold, SELECT and BACK held
\* together for 1200 ms with the clock moving on by 1 ms inside the pass (the
\* confirm block runs), then a power cycle
EnvStore ==
  [tick |-> {40}, hold |-> {1200, 1240}, idle |-> {}, rest |-> {}, mid |-> {0},
   race |-> {0, 1},
   chords |-> [sc \in Screens |->
                 CASE sc = "MENU" -> {{"Up", "Sel"}}
                   [] sc = "WIFI_MANUAL_SETUP" -> {{"Sel"}}
                   [] sc = "WIFI_KEYBOARD" -> {{"Sel"}, {"Sel", "Back"}}
                   [] OTHER -> {}],
   boot |-> {}, scans |-> {NoScan}, saved |-> {NoCreds},
   link |-> {FALSE}, bootLink |-> {FALSE}, ips |-> {"10.0.0.7"},
   maxSamples |-> MaxSamplesStore, maxChanges |-> MaxChangesStore]

NextStore ==
  \/ (LoopPass(EnvStore) \/ WaitSel(EnvStore) \/ WaitBack(EnvStore)
        \/ WaitMan(EnvStore)) /\ EditPlan
  \/ Restart(EnvStore)

SpecStore == Init(EnvStore) /\ [][NextStore]_vars

MaxSamplesType == 56

MaxChangesType == 26

\* typing at the two ends of the keyboard: from the menu to the scan list and
\* the keyboard, SELECT pressed alone or together with DOWN, SELECT held for
\* 1240 ms
EnvType ==
  [tick |-> {40}, hold |-> {1240}, idle |-> {}, rest |-> {}, mid |-> {0}, race |-> {0},
   chords |-> [sc \in Screens |->
                 CASE sc = "MENU" -> {{"Up"}, {"Up", "Sel"}}
                   [] sc = "WIFI_SCAN" -> {{"Sel"}}
                   [] sc = "WIFI_KEYBOARD" -> {{"Down", "Sel"}, {"Sel"}}
                   [] OTHER -> {}],
   boot |-> {}, scans |-> {TwoNets}, saved |-> {NoCreds},
   link |-> {FALSE}, bootLink |-> {FALSE}, ips |-> {"10.0.0.7"},
   maxSamples |-> MaxSamplesType, maxChanges |-> MaxChangesType]

\* the user walks as in CursorPlan and keeps SELECT down, until the char is
\* inserted, only in the first cell and in the last row right of column 6
TypePlan ==
  /\ CursorPlan
  /\ now' - now >= LONGPRESS_MS
       => /\ pc = "loop" /\ currentScreen = "WIFI_KEYBOARD"
          /\ isPressed(btn["Sel"])
          /\ \/ kbRow = 0 /\ kbCol = 0
             \/ kbRow = KEYBOARD_ROWS - 1 /\ kbCol >= 7

NextType == (LoopPass(EnvType) \/ WaitSel(EnvType)) /\ TypePlan

SpecType == Init(EnvType) /\ [][NextType]_vars

MaxSamplesScan == 14

MaxChangesScan == 8

\* answers of WiFi.scanNetworks besides NoScan and TwoNets: a failed scan and
\* more networks than the list holds
FailedScan == [n |-> -2, names |-> <<>>]

ManyNets == [n |-> SCAN_MAX + 2, names |-> [i \in 1..(SCAN_MAX + 2) |-> Str(1, "n")]]

\* the scan list: opened from menu item 3 with nothing, an error, two or 33
\* networks found, walked with UP and DOWN, left with BACK
EnvScan ==
  [tick |-> {40}, hold |-> {}, idle |-> {}, rest |-> {}, mid |-> {0}, race |-> {0},
   chords |-> [sc \in Screens |->
                 CASE sc = "MENU" -> {{"Up"}, {"Up", "Sel"}}
                   [] sc = "WIFI_SCAN" -> {{"Up"}, {"Down"}, {"Up", "Down"}, {"Back"}}
                   [] OTHER -> {}],
   boot |-> {}, scans |-> {NoScan, FailedScan, TwoNets, ManyNets}, saved |-> {NoCreds},
   link |-> {FALSE}, bootLink |-> {FALSE}, ips |-> {"10.0.0.7"},
   maxSamples |-> MaxSamplesScan, maxChanges |-> MaxChangesScan]

NextScan == LoopPass(EnvScan)

SpecScan == Init(EnvScan) /\ [][NextScan]_vars

MaxSamplesLive == 15

MaxChangesLive == 5

\* the connect attempt followed to its end: the manual setup screen, the
\* keyboard, SELECT and BACK held together for 1200 ms with the clock moving
\* on by 1 ms inside the pass (the confirm block runs), then SELECT or BACK
\* touched or nothing touched for about 20 s at a time, the radio joining or
\* not
EnvLive ==
  [tick |-> {40}, hold |-> {1200}, idle |-> {19880}, rest |-> {}, mid |-> {0},
   race |-> {0, 1},
   chords |-> [sc \in Screens |->
                 CASE sc = "MENU" -> {{"Up", "Sel"}}
                   [] sc = "WIFI_MANUAL_SETUP" -> {{"Sel"}}
                   [] sc = "WIFI_KEYBOARD" -> {{"Sel", "Back"}}
                   [] sc = "WIFI_CONNECTING" -> {{"Back"}, {"Sel"}}
                   [] OTHER -> {}],
   boot |-> {}, scans |-> {NoScan}, saved |-> {NoCreds},
   link |-> {FALSE, TRUE}, bootLink |-> {FALSE}, ips |-> {"10.0.0.7"},
   maxSamples |-> MaxSamplesLive, maxChanges |-> MaxChangesLive]

\* the user changes a button only when the last change of every button has
\* been committed, lets go of a button the program is waiting for, and on
\* the Connecting screen either changes a button or leaves the device alone
\* for about 20 s
LivePlan ==
  /\ EditPlan
  /\ pc # "loop" => now' - now < LONGPRESS_MS
  /\ (currentScreen = "WIFI_CONNECTING" /\ btn' = btn) => now' - now > 2 * LONGPRESS_MS

NextLive ==
  (LoopPass(EnvLive) \/ WaitSel(EnvLive) \/ WaitBack(EnvLive) \/ WaitMan(EnvLive))
    /\ LivePlan

\* loop() is called again and again, and millis() advances
SpecLive == Init(EnvLive) /\ [][NextLive]_vars /\ WF_vars(NextLive)

MaxSamplesHome == 16

MaxChangesHome == 7

\* the way back to the menu from the keyboard: the manual setup screen, the
\* keyboard, then SELECT and BACK pressed together, held for 1200 ms at a
\* time and let go together, on the keyboard, the Connecting screen and the
\* result screen; the clock may or may not move on by 1 ms inside a pass
EnvHome ==
  [tick |-> {40}, hold |-> {1200}, idle |-> {}, rest |-> {}, mid |-> {0},
   race |-> {0, 1},
   chords |-> [sc \in Screens |->
                 CASE sc = "MENU" -> {{"Up", "Sel"}}
                   [] sc = "WIFI_MANUAL_SETUP" -> {{"Sel"}}
                   [] sc = "WIFI_KEYBOARD" -> {{"Sel"}, {"Sel", "Back"}}
                   [] sc = "WIFI_CONNECTING" -> {{"Sel", "Back"}}
                   [] sc = "WIFI_RESULT" -> {{"Sel", "Back"}}
                   [] OTHER -> {}],
   boot |-> {}, scans |-> {NoScan}, saved |-> {NoCreds},
   link |-> {FALSE}, bootLink |-> {FALSE}, ips |-> {"10.0.0.7"},
   maxSamples |-> MaxSamplesHome, maxChanges |-> MaxChangesHome]

\* the user changes a button only when the last change of every button has
\* been committed, lets go of a button the program is waiting for, presses
\* SELECT on the keyboard only together with BACK and never has BACK down
\* without SELECT, keeps both down on the keyboard until the program acts,
\* and leaves the buttons as they are only while SELECT is held on the setup
\* screen or the keyboard
HomePlan ==
  /\ EditPlan
  /\ pc # "loop" => now' - now < LONGPRESS_MS
  /\ currentScreen = "WIFI_KEYBOARD"
       => /\ btn'["Back"].lastRaw = LOW => btn'["Sel"].lastRaw = LOW
          /\ (btn["Sel"].lastRaw = HIGH /\ btn'["Sel"].lastRaw = LOW)
               => btn'["Back"].lastRaw = LOW
  /\ (/\ currentScreen = "WIFI_KEYBOARD" /\ pc = "loop"
      /\ isPressed(btn["Sel"]) /\ isPressed(btn["Back"]))
       => \A b \in Buttons : btn'[b].lastRaw = btn[b].lastRaw
  /\ (\A b \in Buttons : /\ btn'[b].lastRaw = btn[b].lastRaw
                          /\ btn[b].lastRaw = btn[b].stable)
       => /\ pc = "loop"
          /\ isPressed(btn["Sel"])
          /\ currentScreen \in {"WIFI_MANUAL_SETUP", "WIFI_KEYBOARD"}

\* BACK is never down without SELECT, so no pass waits for BACK alone
NextHome ==
  (LoopPass(EnvHome) \/ WaitSel(EnvHome) \/ WaitMan(EnvHome)) /\ HomePlan

\* loop() is called again and again, and millis() advances
SpecHome == Init(EnvHome) /\ [][NextHome]_vars /\ WF_vars(NextHome)

MaxSamplesTour == 44

MaxChangesTour == 19

\* the tour from the menu to a connect attempt: DOWN and SELECT on the menu,
\* DOWN and SELECT on the scan list, SELECT alone and SELECT with BACK on the
\* keyboard, each held for 1240 ms when it is held
EnvTour ==
  [tick |-> {40}, hold |-> {1240}, idle |-> {}, rest |-> {}, mid |-> {0}, race |-> {0},
   chords |-> [sc \in Screens |->
                 CASE sc = "MENU" -> {{"Down"}, {"Sel"}}
                   [] sc = "WIFI_SCAN" -> {{"Down"}, {"Sel"}}
                   [] sc = "WIFI_KEYBOARD" -> {{"Sel"}, {"Sel", "Back"}}
                   [] OTHER -> {}],
   boot |-> {}, scans |-> {TwoNets}, saved |-> {NoCreds},
   link |-> {FALSE}, bootLink |-> {FALSE}, ips |-> {"10.0.0.7"},
   maxSamples |-> MaxSamplesTour, maxChanges |-> MaxChangesTour]

Pressing(b) == btn[b].lastRaw = HIGH /\ btn'[b].lastRaw = LOW

\* the user presses DOWN on the menu only above "Connect to Wi-Fi" and SELECT
\* only on it, presses BACK only together with SELECT and only when the
\* secret reads "abc", changes a button only when the last change of every
\* button has been committed, and holds a button only on the keyboard and
\* only until the program has acted on the hold
TourPlan ==
  /\ \/ \A b \in Buttons : btn'[b].lastRaw = btn[b].lastRaw
     \/ \A b \in Buttons : btn[b].lastRaw = btn[b].stable
  /\ now' - now >= LONGPRESS_MS => pc = "loop" /\ currentScreen = "WIFI_KEYBOARD"
  /\ (currentScreen = "MENU" /\ Pressing("Down")) => menuIndex < 3
  /\ (currentScreen = "MENU" /\ Pressing("Sel")) => menuIndex = 3
  /\ Pressing("Back") => /\ Pressing("Sel")
                         /\ manualPassword = <<"a", "b", "c">>

NextTour ==
  (LoopPass(EnvTour) \/ WaitSel(EnvTour) \/ WaitBack(EnvTour)) /\ TourPlan

SpecTour == Init(EnvTour) /\ [][NextTour]_vars

-----------------------------------------------------------------------------
(* The debouncer and the press edge.                                        *)

\* C1: pressedEdge returns true at most once for one contiguous run of LOW
\* samples that lasted at least DEBOUNCE_MS, and never for a shorter run: every
\* true it returns is paid for by a run that had reached the window and had
\* not yet been reported.
C1_EdgeOncePerRun == \A b \in Buttons : obs[b].credit >= 0

\* an edge was reported for a run that had reached the window, and used it up
C1_Witness ==
  \E b \in Buttons : obs[b].fired /\ obs[b].granted /\ obs[b].credit = 0
                        /\ now - obs[b].runStart > DEBOUNCE_MS

\* C2 as the spec states it: every committed released-to-pressed transition,
\* in the main tick or inside a release-wait loop, is reported by exactly one
\* true of pressedEdge: at each call pressedEdge returns true if and only if a
\* committed press has not been reported yet.
C2_EveryPressReported == \A b \in Buttons : obs[b].fired = obs[b].owed

\* C3 as the spec states it: pressedAt is non-zero exactly when the stable
\* level is LOW.
C3_StampIffPressed ==
  \A b \in Buttons : (btn[b].pressedAt # 0) <=> (btn[b].stable = LOW)

\* C3, amended: a non-zero pressedAt means the stable level is LOW, and a LOW
\* stable level has a non-zero pressedAt unless the button has been LOW ever
\* since setupButtons read it.
C3_StampIffPressedAfterBoot ==
  \A b \in Buttons :
    /\ btn[b].pressedAt # 0 => btn[b].stable = LOW
    /\ btn[b].stable = LOW /\ ~obs[b].sinceBoot => btn[b].pressedAt # 0
    /\ btn[b].stable = LOW /\ obs[b].sinceBoot => btn[b].pressedAt = 0

\* a button held at power-up, released and pressed again: its second press
\* carries a timestamp
C3_Witness ==
  /\ btn["Back"].stable = LOW /\ btn["Back"].pressedAt # 0
  /\ \E b \in Buttons : btn[b].stable = HIGH /\ btn[b].pressedAt = 0 /\ obs[b].granted

-----------------------------------------------------------------------------
(* Held gestures on the keyboard.                                           *)

Gestures == {"Sel", "Back"}

\* the stable level of b has been LOW for more than d / for at least d
HeldOver(b, d) == obs[b].lowSince # -1 /\ now - obs[b].lowSince > d

HeldAtLeast(b, d) == obs[b].lowSince # -1 /\ now - obs[b].lowSince >= d

\* C4 as the spec states it: the long-press condition is true exactly when
\* the stable level has been pressed continuously for at least LONGPRESS_MS,
\* and false once the stable level is released.
C4_LongIffHeldAtLeast ==
  \A b \in Gestures : longPressed(btn[b], now) <=> HeldAtLeast(b, LONGPRESS_MS)

\* C4, amended: the long-press condition is true exactly when the stable level
\* has been pressed continuously for more than LONGPRESS_MS by a press that was
\* committed after setupButtons, and false once the stable level is released.
C4_LongIffHeldOver ==
  \A b \in Gestures :
    longPressed(btn[b], now) <=> (HeldOver(b, LONGPRESS_MS) /\ ~obs[b].sinceBoot)

\* the condition is true of one button while the other, held just as long
\* since power-up, does not satisfy it
C4_Witness ==
  /\ longPressed(btn["Sel"], now)
  /\ HeldOver("Back", LONGPRESS_MS) /\ ~longPressed(btn["Back"], now)

ActiveLen == IF editingSSID THEN Len(manualSSID) ELSE Len(manualPassword)

ActiveMax == IF editingSSID THEN SSID_MAX ELSE PWD_MAX

\* C5 as the spec states it: on the keyboard an uninterrupted hold of SELECT
\* (BACK) that lasted beyond the threshold has appended (removed) exactly one
\* character by the time it ends.
C5_HoldChangesOneChar ==
  [][\A b \in Gestures :
       (/\ currentScreen = "WIFI_KEYBOARD" /\ pc # "waitMan"
        /\ btn[b].stable = LOW /\ btn'[b].stable = HIGH
        /\ now' - obs[b].lowSince > LONGPRESS_MS) => obs[b].chars = 1]_vars

\* C5, amended: one uninterrupted hold makes the insert (delete) fire at most
\* once; it fires in a main-loop pass that finds the button pressed for more
\* than LONGPRESS_MS by a press committed after setupButtons; the insert
\* appends one character unless the active buffer is full and the delete
\* removes one unless it is empty.
C5_HoldActsAtMostOnce ==
  /\ [](\A b \in Gestures : obs[b].chars <= obs[b].acted /\ obs[b].acted <= 1)
  /\ [][(pc = "loop" /\ pc' = "loop" /\ currentScreen' = "WIFI_KEYBOARD")
          => \A b \in Gestures : ~(HeldOver(b, LONGPRESS_MS)' /\ ~obs'[b].sinceBoot)]_vars
  /\ [][(currentScreen = "WIFI_KEYBOARD" /\ pc # "waitSel" /\ pc' = "waitSel")
          => /\ HeldOver("Sel", LONGPRESS_MS)' /\ obs'["Sel"].acted = 1
             /\ ActiveLen' = Min(ActiveLen + 1, ActiveMax)]_vars
  /\ [][(currentScreen = "WIFI_KEYBOARD" /\ pc # "waitBack" /\ pc' = "waitBack")
          => /\ HeldOver("Back", LONGPRESS_MS)' /\ obs'["Back"].acted = 1
             /\ ActiveLen' = Max(ActiveLen - 1, 0)]_vars

\* a SELECT hold has appended its one character and is still going on, the
\* loop waiting for the release
C5_Witness ==
  /\ pc = "waitSel" /\ obs["Sel"].acted = 1 /\ obs["Sel"].chars = 1
  /\ now - obs["Sel"].lowSince > LONGPRESS_MS + DEBOUNCE_MS

\* C6 as the spec states it: on the keyboard, a pass that finds SELECT and
\* BACK both stably pressed and both held past the threshold confirms: the
\* two buffers are in the store, the radio is associating with them, and the
\* screen and the connection state are Connecting.
C6_ConfirmFires ==
  [][(/\ pc = "loop" /\ currentScreen = "WIFI_KEYBOARD"
      /\ \A b \in Gestures : longPressed(btn'[b], now'))
       => /\ currentScreen' = "WIFI_CONNECTING" /\ wifiConnectState' = "CONNECTING"
          /\ prefs' = [ssid |-> manualSSID', pwd |-> manualPassword']
          /\ radio' = "associating"]_vars

-----------------------------------------------------------------------------
(* The connect attempt.                                                     *)

\* the last pass polled the attempt and the radio was not linked
PolledUnlinked == polled.ran /\ ~polled.linked

\* C7: while Connecting, a poll that finds the radio not linked more than
\* WIFI_CONNECT_TIMEOUT after the start of the attempt sets the state Failed
\* with the message Timeout, aborts the radio and shows the result screen; it
\* happens once per attempt.
C7_TimeoutFails ==
  /\ polled.timeouts <= 1
  /\ (PolledUnlinked /\ polled.at - wifiConnectStart > WIFI_CONNECT_TIMEOUT)
       => /\ wifiConnectState = "FAILED"
          /\ result = [ok |-> FALSE, msg |-> <<"Timeout">>]
          /\ radio = "off"
          /\ currentScreen = "WIFI_RESULT"
          /\ polled.timeouts = 1

\* an attempt has just timed out
C7_Witness ==
  /\ PolledUnlinked /\ polled.at - wifiConnectStart > WIFI_CONNECT_TIMEOUT
  /\ wifiConnectState = "FAILED" /\ result.msg = <<"Timeout">>

\* C8: a BACK edge while the Connecting screen is shown aborts the radio,
\* sets the state Failed with the message Cancelled by user and shows the
\* result screen; a BACK edge while the state is Idle, Connected or Failed
\* leaves the connection state as it is.
C8_BackCancels ==
  [][(pc = "loop" /\ obs'["Back"].fired)
       => /\ currentScreen = "WIFI_CONNECTING"
               => /\ wifiConnectState' = "FAILED"
                  /\ radio' = "off"
                  /\ result' = [ok |-> FALSE, msg |-> <<"Cancelled by user">>]
                  /\ currentScreen' = "WIFI_RESULT"
          /\ wifiConnectState \in {"IDLE", "CONNECTED", "FAILED"}
               => wifiConnectState' = wifiConnectState]_vars

\* the attempt was cancelled by the BACK edge of the last pass
C8_Witness ==
  /\ obs["Back"].fired /\ currentScreen = "WIFI_RESULT"
  /\ wifiConnectState = "FAILED" /\ radio = "off"
  /\ result = [ok |-> FALSE, msg |-> <<"Cancelled by user">>]

\* C9: while Connecting, a poll that finds the radio linked sets the state
\* Connected and the connected flag and shows the result screen with success
\* and the address, also when the timeout has already elapsed.
C9_LinkedConnects ==
  (polled.ran /\ polled.linked)
    => /\ wifiConnectState = "CONNECTED"
       /\ wifiConnected
       /\ currentScreen = "WIFI_RESULT"
       /\ result = [ok |-> TRUE, msg |-> <<"Connected: ", polled.ip>>]

\* the radio was found linked by a poll later than the timeout
C9_Witness ==
  /\ polled.ran /\ polled.linked
  /\ polled.at - wifiConnectStart > WIFI_CONNECT_TIMEOUT
  /\ wifiConnectState = "CONNECTED"

\* C10: while Connecting, a poll that finds the radio not linked at most
\* WIFI_CONNECT_TIMEOUT after the start changes nothing: the state, the
\* screen, the start timestamp, the connected flag and the text buffers stay.
C10_PendingPollIdle ==
  [][(/\ currentScreen = "WIFI_CONNECTING"
      /\ PolledUnlinked' /\ polled'.at - wifiConnectStart <= WIFI_CONNECT_TIMEOUT)
       => /\ wifiConnectState' = "CONNECTING"
          /\ currentScreen' = "WIFI_CONNECTING"
          /\ UNCHANGED <<wifiConnectState, wifiConnectStart, wifiConnected,
                         manualSSID, manualPassword, result, radio>>]_vars

\* a poll exactly WIFI_CONNECT_TIMEOUT after the start left the attempt going
C10_Witness ==
  /\ PolledUnlinked /\ polled.at - wifiConnectStart = WIFI_CONNECT_TIMEOUT
  /\ wifiConnectState = "CONNECTING" /\ currentScreen = "WIFI_CONNECTING"

\* C11 as the spec states it: once an attempt has completed (Connected or
\* Failed), a SELECT or BACK edge on the result screen resets the connection
\* state to Idle.
C11_AckResetsToIdle ==
  [][(/\ pc = "loop" /\ currentScreen = "WIFI_RESULT"
      /\ wifiConnectState \in {"CONNECTED", "FAILED"}
      /\ obs'["Sel"].fired \/ obs'["Back"].fired)
       => wifiConnectState' = "IDLE"]_vars

\* C12: startWiFiConnect is never called while the connection state is
\* Connecting, so at most one attempt is active at a time.
C12_OneAttemptAtATime == polled.from # "CONNECTING"

\* an attempt has been started, from Idle, and is going on
C12_Witness ==
  /\ polled.from = "IDLE"
  /\ wifiConnectState = "CONNECTING" /\ currentScreen = "WIFI_CONNECTING"
  /\ \A b \in Gestures : longPressed(btn[b], now)

-----------------------------------------------------------------------------
(* Navigation.                                                              *)

\* the menu index after an UP edge / a DOWN edge at index i of a menu of n items
MenuUp(i, n) == IF i = 0 THEN n - 1 ELSE i - 1

MenuDown(i, n) == IF i = n - 1 THEN 0 ELSE i + 1

\* C13: on the menu, of 5 items, an UP edge at index 0 gives index 4 and a
\* DOWN edge at index 4 gives index 0, every other UP or DOWN edge moves the
\* index by one, and the index is within 0..4 in every state.
C13_MenuWraps ==
  /\ MENU_COUNT = 5
  /\ [](menuIndex \in 0..(MENU_COUNT - 1))
  /\ [][(pc = "loop" /\ currentScreen = "MENU")
          => LET u == IF obs'["Up"].fired THEN MenuUp(menuIndex, 5) ELSE menuIndex
                 d == IF obs'["Down"].fired THEN MenuDown(u, 5) ELSE u
             IN menuIndex' = d]_vars

\* a DOWN edge has just taken the index from the last item back to the first
C13_Witness ==
  /\ currentScreen = "MENU" /\ previousScreen = "LOADING"
  /\ obs["Down"].fired /\ ~obs["Up"].fired /\ menuIndex = 0
  /\ isPressed(btn["Up"])

(***************************************************************************)
(* C14.  The keyboard cursor.                                              *)
(***************************************************************************)
StepBack(i) == IF i = 0 THEN 0 ELSE i - 1
StepOn(i, n) == IF i = n - 1 THEN n - 1 ELSE i + 1

\* C14: the keyboard cursor always satisfies 0 <= row < 6 and 0 <= col < 10;
\* on the keyboard a press of UP moves it one row up and stops at row 0, a
\* press of DOWN one row down and stops at row 5, a short SELECT one column
\* right and stops at column 9, a short BACK one column left and stops at
\* column 0; no move wraps around
C14_CursorClamped ==
  /\ KEYBOARD_ROWS = 6 /\ KEYBOARD_COLS = 10
  /\ [](kbRow \in 0..5 /\ kbCol \in 0..9)
  /\ [][(pc = "loop" /\ currentScreen = "WIFI_KEYBOARD")
          => LET u == IF obs'["Up"].fired THEN StepBack(kbRow) ELSE kbRow
                 d == IF obs'["Down"].fired THEN StepOn(u, 6) ELSE u
                 r == IF obs'["Sel"].fired THEN StepOn(kbCol, 10) ELSE kbCol
                 l == IF obs'["Back"].fired THEN StepBack(r) ELSE r
             IN kbRow' = d /\ kbCol' = l]_vars

\* DOWN and SELECT have just fired and the cursor is in the bottom right cell
C14_Witness ==
  /\ currentScreen = "WIFI_KEYBOARD" /\ pc = "loop"
  /\ kbRow = KEYBOARD_ROWS - 1 /\ kbCol = KEYBOARD_COLS - 1
  /\ obs["Down"].fired /\ obs["Sel"].fired

(***************************************************************************)
(* C15.  Leaving the leaf screens.                                         *)
(***************************************************************************)
LeafScreens ==
  {"LOCAL_WEATHER", "API_WEATHER", "GEOLOCATION", "INFO", "WIFI_SCAN", "WIFI_RESULT"}

\* C15 as stated: from every leaf screen, the scan list included, a short
\* SELECT and a short BACK both set the screen to the menu
C15_LeavesReturnToMenu ==
  [][(/\ pc = "loop" /\ currentScreen \in LeafScreens
      /\ obs'["Sel"].fired \/ obs'["Back"].fired)
       => currentScreen' = "MENU"]_vars

\* C15, amended: from the weather views, geolocation, info and the connection
\* result a short SELECT and a short BACK both set the screen to the menu;
\* from the scan list a short BACK alone sets it to the menu, and a short
\* SELECT sets it to the keyboard editor
C15_LeavesButScanReturnToMenu ==
  [][pc = "loop"
       => /\ (/\ currentScreen \in LeafScreens \ {"WIFI_SCAN"}
              /\ obs'["Sel"].fired \/ obs'["Back"].fired)
               => currentScreen' = "MENU"
          /\ (/\ currentScreen = "WIFI_SCAN"
              /\ obs'["Back"].fired /\ ~obs'["Sel"].fired)
               => currentScreen' = "MENU"
          /\ (currentScreen = "WIFI_SCAN" /\ obs'["Sel"].fired)
               => currentScreen' = "WIFI_KEYBOARD"]_vars

\* a short SELECT alone has just closed the geolocation screen
C15_Witness ==
  /\ currentScreen = "MENU" /\ previousScreen = "MENU" /\ menuIndex = 2
  /\ obs["Sel"].fired /\ ~obs["Back"].fired

(***************************************************************************)
(* C16.  What SELECT opens from the menu.                                  *)
(***************************************************************************)
\* the screen each of the five MENU_ITEMS names
MenuNames ==
  <<"LOCAL_WEATHER", "API_WEATHER", "GEOLOCATION", "WIFI_SCAN", "INFO">>

\* C16: a short SELECT on the menu opens the screen that the highlighted item
\* names: 0 local weather, 1 API weather, 2 geolocation, 3 network scan,
\* 4 info
C16_MenuOpensNamedScreen ==
  [][(/\ pc = "loop" /\ currentScreen = "MENU"
      /\ obs'["Sel"].fired /\ ~obs'["Back"].fired)
       => currentScreen' = MenuNames[menuIndex' + 1]]_vars

(***************************************************************************)
(* C17.  Choosing a network from the scan list.                            *)
(***************************************************************************)
\* C17: a short SELECT on the scan list with row i highlighted opens the
\* keyboard editor with the network name equal to scan entry i, the secret
\* empty, the secret as the active field and the cursor at (0,0)
C17_SelectSeedsEditor ==
  [][(pc = "loop" /\ currentScreen = "WIFI_SCAN" /\ obs'["Sel"].fired)
       => /\ currentScreen' = "WIFI_KEYBOARD"
          /\ wifiListIndex' \in 0..(scannedCount' - 1)
          /\ manualSSID' = scannedSSIDs'[wifiListIndex']
          /\ manualPassword' = <<>>
          /\ editingSSID' = FALSE
          /\ kbRow' = 0 /\ kbCol' = 0]_vars

\* SELECT has just opened the editor for the second of two networks found
C17_Witness ==
  /\ currentScreen = "WIFI_KEYBOARD" /\ obs["Sel"].fired
  /\ scannedCount = 2 /\ wifiListIndex = 1
  /\ manualSSID = TwoNets.names[2] /\ manualPassword = <<>>
  /\ ~editingSSID /\ kbRow = 0 /\ kbCol = 0

(***************************************************************************)
(* C18.  From the menu to a connect attempt.                               *)
(***************************************************************************)
\* C18: DOWN three times from menu item 0, SELECT, SELECT on a scan row,
\* three inserts that leave the secret "abc", then SELECT and BACK held
\* together past the threshold: the screen is Connecting, the network name is
\* the chosen scan entry and the secret is "abc"
C18_TourConnects ==
  (\A b \in Gestures : HeldOver(b, LONGPRESS_MS))
    => /\ currentScreen = "WIFI_CONNECTING"
       /\ manualSSID = scannedSSIDs[wifiListIndex]
       /\ manualPassword = <<"a", "b", "c">>

(***************************************************************************)
(* C19.  Every pass of loop() ends.                                        *)
(***************************************************************************)
\* the button a release wait is waiting for
Awaited == IF pc = "waitBack" THEN "Back" ELSE "Sel"

\* C19: every pass ends whatever the buttons do, also for a button that stays
\* pressed: a release wait that goes round once more has seen its button
\* change, it never goes round on a button that is simply kept down
C19_NoWaitOnHeldButton ==
  [][(pc # "loop" /\ pc' = pc) => btn'[Awaited] # btn[Awaited]]_vars

(***************************************************************************)
(* C20.  The poll of the connect attempt.                                  *)
(***************************************************************************)
\* C20: every pass that starts on the Connecting screen and is not cancelled
\* by BACK polls the attempt (link test and timeout test), whatever the
\* buttons do and however long ago the last refresh was
C20_PolledEveryPass ==
  [][(pc = "loop" /\ currentScreen = "WIFI_CONNECTING" /\ ~obs'["Back"].fired)
       => polled'.ran]_vars

(***************************************************************************)
(* C21.  The two buffers are bounded.                                      *)
(***************************************************************************)
\* C21: the network name never exceeds 32 characters and the secret never
\* exceeds 64 (stored values and scan names being within these bounds), and
\* an insert by a SELECT hold into a buffer that is already at its maximum
\* length leaves both buffers unchanged
C21_BuffersBounded ==
  /\ SSID_MAX = 32 /\ PWD_MAX = 64
  /\ [](Len(manualSSID) <= SSID_MAX /\ Len(manualPassword) <= PWD_MAX)
  /\ [][(/\ pc = "loop" /\ pc' = "waitSel" /\ currentScreen = "WIFI_KEYBOARD"
         /\ ActiveLen = ActiveMax)
          => UNCHANGED <<manualSSID, manualPassword>>]_vars

\* a SELECT hold has just acted on a secret of 64 characters
C21_Witness ==
  /\ pc = "waitSel" /\ obs["Sel"].acted = 1 /\ obs["Sel"].chars = 0
  /\ ~editingSSID /\ Len(manualPassword) = PWD_MAX

(***************************************************************************)
(* C22.  What insert and delete touch.                                     *)
(***************************************************************************)
Active == IF editingSSID THEN manualSSID ELSE manualPassword

Inactive == IF editingSSID THEN manualPassword ELSE manualSSID

ButLast(w) == IF Len(w) = 0 THEN w ELSE SubSeq(w, 1, Len(w) - 1)

\* C22: on the keyboard a BACK hold removes exactly the final character of
\* the active buffer when it is non-empty and does nothing when it is empty;
\* neither a SELECT hold nor a BACK hold modifies the buffer that is not
\* active, nor the active-field flag
C22_DeleteTakesLastOfActive ==
  /\ [][(currentScreen = "WIFI_KEYBOARD" /\ pc # "waitBack" /\ pc' = "waitBack")
          => /\ editingSSID' = editingSSID
             /\ Inactive' = Inactive
             /\ Active' = ButLast(Active)]_vars
  /\ [][(currentScreen = "WIFI_KEYBOARD" /\ pc = "loop" /\ pc' = "waitSel")
          => /\ editingSSID' = editingSSID
             /\ Inactive' = Inactive]_vars

\* a BACK hold has just removed the character a SELECT hold had appended to
\* the 31 stored characters of the network name
C22_Witness ==
  /\ pc = "waitBack" /\ obs["Back"].acted = 1 /\ obs["Back"].chars = 1
  /\ editingSSID /\ prefs = NearFullCreds /\ manualSSID = NearFullCreds.ssid
  /\ manualPassword = NearFullCreds.pwd

(***************************************************************************)
(* C23.  Storing and loading the credentials.                              *)
(***************************************************************************)
\* C23: the network name and the secret a confirm has stored are the ones
\* the next startup loads into the two buffers, for every pair that can be
\* confirmed, an empty network name with a non-empty secret included
C23_StoreLoadRoundTrip ==
  [][(polled.from # "NONE" /\ now' < now)
       => manualSSID' = prefs.ssid /\ manualPassword' = prefs.pwd]_vars

(***************************************************************************)
(* C24.  When the short press acts.                                        *)
(***************************************************************************)
\* C24: the short-press action of SELECT and BACK is not executed while the
\* button is still held: a pass that leaves SELECT pressed has not moved the
\* keyboard cursor right nor toggled the field of the manual setup screen,
\* and a pass that leaves BACK pressed has not moved the cursor left
C24_ShortActsAfterRelease ==
  [][pc = "loop"
       => /\ (currentScreen = "WIFI_KEYBOARD" /\ isPressed(btn'["Sel"]))
               => kbCol' <= kbCol
          /\ (currentScreen = "WIFI_KEYBOARD" /\ isPressed(btn'["Back"]))
               => kbCol' >= kbCol
          /\ (currentScreen = "WIFI_MANUAL_SETUP" /\ isPressed(btn'["Sel"]))
               => editingSSID' = editingSSID]_vars

(***************************************************************************)
(* C25.  The two stages of the debouncer.                                  *)
(***************************************************************************)
\* the sample of this step saw the raw level of b change
RawChanged(b) == btn'[b].lastRaw # btn[b].lastRaw

\* what a sample does to b, the level being committed when it differs from
\* the stable level and Old holds of the time since the recorded change
Debounced(b, Old(_)) ==
  IF RawChanged(b)
    THEN /\ btn'[b].lastChange = now'
         /\ btn'[b].stable = btn[b].stable
         /\ btn'[b].pressedAt = btn[b].pressedAt
    ELSE /\ btn'[b].lastChange = btn[b].lastChange
         /\ IF Old(now' - btn[b].lastChange) /\ btn[b].stable # btn[b].lastRaw
              THEN /\ btn'[b].stable = btn[b].lastRaw
                   /\ btn'[b].pressedAt = IF btn[b].lastRaw = LOW THEN now' ELSE 0
              ELSE /\ btn'[b].stable = btn[b].stable
                   /\ btn'[b].pressedAt = btn[b].pressedAt

AtLeastWindow(d) == d >= DEBOUNCE_MS

OverWindow(d) == d > DEBOUNCE_MS

\* C25 as stated: a sample whose raw level differs from the last one seen
\* only records the change time; the stable level is committed at the first
\* sample at which the raw level has been unchanged for at least 30 ms and
\* differs from it, pressedAt being set on a press and cleared on a release
C25_CommitsAtWindow ==
  [][\A b \in Buttons : Debounced(b, AtLeastWindow)]_vars

\* C25, amended: as above, but the level is committed at the first sample
\* taken more than 30 ms after the recorded change
C25_CommitsAfterWindow ==
  /\ DEBOUNCE_MS = 30
  /\ [][\A b \in Buttons : Debounced(b, OverWindow)]_vars

\* SELECT has been sampled exactly 30 ms after its press was recorded, and
\* the press is not committed
C25_Witness ==
  /\ btn["Sel"].lastRaw = LOW /\ btn["Sel"].stable = HIGH
  /\ now - btn["Sel"].lastChange = DEBOUNCE_MS

(***************************************************************************)
(* C26.  The character of a cell.                                          *)
(***************************************************************************)
\* the character the cell (r, c) stands for
Resolve(r, c) ==
  IF r = KEYBOARD_ROWS - 1 /\ c >= 8
    THEN extraSymbols[c - 8 + 1]
    ELSE keyboardCells[r + 1][c + 1]

\* C26: for every cursor position the character a SELECT hold appends is
\* extraSymbols[col - 8] in the last row from column 8 on and
\* keyboardCells[row][col] elsewhere, and it is the character showKeyboard
\* draws in that cell
C26_InsertsResolvedChar ==
  /\ \A r \in 0..(KEYBOARD_ROWS - 1), c \in 0..(KEYBOARD_COLS - 1) :
       /\ charUnderCursor(r, c) = Resolve(r, c)
       /\ drawnChar(r, c) = Resolve(r, c)
  /\ [][(/\ pc = "loop" /\ pc' = "waitSel" /\ currentScreen = "WIFI_KEYBOARD"
         /\ ActiveLen < ActiveMax)
          => Active' = Append(Active, Resolve(kbRow', kbCol'))]_vars

\* a SELECT hold in the last cell of the last row has just appended "@"
C26_Witness ==
  /\ pc = "waitSel" /\ obs["Sel"].chars = 1
  /\ kbRow = KEYBOARD_ROWS - 1 /\ kbCol = KEYBOARD_COLS - 1
  /\ Len(manualPassword) > 0 /\ manualPassword[Len(manualPassword)] = "@"

(***************************************************************************)
(* C27.  The scan list.                                                    *)
(***************************************************************************)
\* the list shows what the provider answered: the placeholder alone for an
\* answer of zero or less, the first 31 names otherwise
ShowsScan(sc) ==
  IF sc.n <= 0
    THEN scannedCount = 1 /\ scannedSSIDs[0] = NoNetworksFound
    ELSE /\ scannedCount = Min(sc.n, 31)
         /\ \A i \in 0..(scannedCount - 1) : scannedSSIDs[i] = sc.names[i + 1]

\* C27: while the scan list is shown the count is in 1..31, an answer of
\* zero or fewer networks having become the single entry "No networks
\* found", and the highlighted index is in 0..count-1; UP at index 0 and
\* DOWN at index count-1 leave the index unchanged, elsewhere they move it
\* by one
C27_ScanListClamped ==
  /\ [](currentScreen = "WIFI_SCAN"
          => /\ scannedCount \in 1..31
             /\ wifiListIndex \in 0..(scannedCount - 1)
             /\ \E sc \in EnvScan.scans : ShowsScan(sc))
  /\ [][(pc = "loop" /\ currentScreen = "WIFI_SCAN")
          => LET u == IF obs'["Up"].fired THEN StepBack(wifiListIndex)
                                         ELSE wifiListIndex
                 d == IF obs'["Down"].fired THEN StepOn(u, scannedCount) ELSE u
             IN wifiListIndex' = d]_vars

\* 33 networks were found, 31 are listed, and DOWN has moved to the second
C27_Witness ==
  /\ currentScreen = "WIFI_SCAN" /\ scannedCount = SCAN_MAX
  /\ wifiListIndex = 1 /\ obs["Down"].fired

(***************************************************************************)
(* C28.  Every connect attempt ends.                                       *)
(***************************************************************************)
\* the samples left are enough for every change of a button still to come,
\* its commit, and two samples of an untouched device
SamplesLeft == samples + 2 * (MaxChangesLive - changes) + 3 <= MaxSamplesLive

Resolved ==
  currentScreen = "WIFI_RESULT" /\ wifiConnectState \in {"CONNECTED", "FAILED"}

\* C28: whenever the connection state is Connecting, with loop() called again
\* and again and the clock advancing, the screen eventually is the
\* connection result with the state Connected or Failed, whatever the radio
\* answers and the buttons do
C28_AttemptEnds == (wifiConnectState = "CONNECTING" /\ SamplesLeft) ~> Resolved

\* an attempt the radio never joined has ended with the message Timeout
C28_Witness ==
  /\ Resolved /\ wifiConnectState = "FAILED"
  /\ result = [ok |-> FALSE, msg |-> <<"Timeout">>]
  /\ now - wifiConnectStart > WIFI_CONNECT_TIMEOUT

-----------------------------------------------------------------------------
(* C29.  Long presses act on the keyboard and the manual setup screen only. *)

Editors == {"WIFI_KEYBOARD", "WIFI_MANUAL_SETUP"}

\* the pass polled the connect attempt and the poll ended it
PollEnds == polled'.ran /\ wifiConnectState' # "CONNECTING"

\* C29: a pass of loop() that starts on a screen other than the keyboard and
\* the manual setup screen, in which no press edge is reported and the poll
\* does not end a connect attempt, and at whose end some button is held
\* past the long-press threshold, leaves the screen, both text buffers, the
\* active-field flag, the keyboard cursor and the connection state as they were.
C29_HoldsActOnEditorsOnly ==
  [][(/\ pc = "loop"
      /\ currentScreen \notin Editors
      /\ \E b \in Buttons : longPressed(btn'[b], now')
      /\ \A b \in Buttons : ~obs'[b].fired
      /\ ~PollEnds)
     => UNCHANGED <<currentScreen, manualSSID, manualPassword, editingSSID,
                    kbRow, kbCol, wifiConnectState>>]_vars

\* SELECT and BACK still held, past the threshold, a pass after the connect
\* attempt began; the screen is still the connecting screen and the name
\* typed before is whole
C29_Witness ==
  /\ pc = "loop"
  /\ currentScreen = "WIFI_CONNECTING"
  /\ wifiConnectState = "CONNECTING"
  /\ longPressed(btn["Sel"], now) /\ longPressed(btn["Back"], now)
  /\ now - wifiConnectStart > LONGPRESS_MS
  /\ manualSSID = <<"a">>

-----------------------------------------------------------------------------
(* C30.  The connecting screen and the Connecting state go together.        *)

\* C30: between two passes of loop() the screen is the connecting screen
\* exactly when the connection state is Connecting.
C30_ConnectingScreenIffState ==
  pc = "loop" => (currentScreen = "WIFI_CONNECTING" <=> wifiConnectState = "CONNECTING")

\* the attempt goes on after a poll before the timeout
C30_Witness ==
  /\ pc = "loop"
  /\ currentScreen = "WIFI_CONNECTING" /\ wifiConnectState = "CONNECTING"
  /\ polled.ran /\ polled.at - wifiConnectStart < WIFI_CONNECT_TIMEOUT

-----------------------------------------------------------------------------
(* C31.  The connected flag after a failed attempt.                         *)

\* C31: whenever the connection state is Failed, by timeout or by
\* cancellation, the wifiConnected flag is false, also when the auto-connect
\* of setup() or an earlier attempt had succeeded.
C31_FailedClearsConnected == wifiConnectState = "FAILED" => ~wifiConnected

-----------------------------------------------------------------------------
(* C33.  The placeholder of an empty scan.                                  *)

\* the scan list shows the placeholder of a scan that found nothing
ShowsPlaceholder ==
  currentScreen = "WIFI_SCAN" /\ scannedCount = 1 /\ scannedSSIDs[0] = NoNetworksFound

\* C33: when the scan found no network, a SELECT edge on the scan list does
\* not open the keyboard editor, and the text "No networks found" is never
\* the content of the network-name buffer.
C33_PlaceholderNotSelectable ==
  /\ [][(pc = "loop" /\ ShowsPlaceholder /\ obs'["Sel"].fired)
          => currentScreen' # "WIFI_KEYBOARD"]_vars
  /\ [](manualSSID # NoNetworksFound)

-----------------------------------------------------------------------------
(* C34.  The characters the keyboard can append.                            *)

\* the characters of the grid and of the symbol list
KeyboardChars ==
  {keyboardCells[r][c] : r \in 1..KEYBOARD_ROWS, c \in 1..KEYBOARD_COLS}
    \cup {extraSymbols[i] : i \in 1..Len(extraSymbols)}

\* the characters an insert appends at some cursor position of the grid
InsertableChars ==
  {charUnderCursor(r, c) : r \in 0..(KEYBOARD_ROWS - 1), c \in 0..(KEYBOARD_COLS - 1)}

\* C34: on the keyboard, every character of the grid and every character of
\* the symbol list is the character an insert appends at some cursor
\* position.
C34_EveryCharInsertable ==
  currentScreen = "WIFI_KEYBOARD" => KeyboardChars \subseteq InsertableChars

-----------------------------------------------------------------------------
(* C32.  The way back to the menu.                                          *)

\* neither SELECT nor BACK is down, and the samples and button changes left
\* cover the confirm gesture, the cancel and the acknowledgement
HomeBudget ==
  /\ pc = "loop"
  /\ \A b \in Gestures : btn[b].lastRaw = HIGH /\ btn[b].stable = HIGH
  /\ samples + 11 <= MaxSamplesHome
  /\ changes + 5 <= MaxChangesHome

====
